---------------------------- MODULE Spec2Model ----------------------------
(***************************************************************************)
(* Model of the File Store of 0xNote (src/src/stores/fileStore.ts): the   *)
(* open document, its save status, the asynchronous openFile / saveFile / *)
(* saveFileAs operations with their suspension points, and the debounced  *)
(* autosave driven by the content watcher.                                *)
(*                                                                         *)
(* The UI thread is single-threaded: every action below is one            *)
(* synchronous segment of a handler, from its call (or the resumption of  *)
(* an await) to its next await or return.  Reactive watcher callbacks run *)
(* in the micro-task flush that follows the segment and are part of it.   *)
(* Time is discrete; the debounce delay of 1000 ms is Delay ticks.        *)
(* lastSavedAt (a Date.now() stamp that nothing reads back) is left out.  *)
(*                                                                         *)
(* Beside the File Store the module models the Settings Store with the    *)
(* Windows config service, the scroll synchronisation of App.vue with the *)
(* scroll code of the two views, and the main process with the registry   *)
(* integration of electron/registry.ts.  Each part has a specification of *)
(* its own that leaves the variables of the other parts alone.            *)
(***************************************************************************)
EXTENDS Integers, Sequences, FiniteSets, Bags, TLC

\* ---------------------------------------------------------------- bounds
\* Number of file-system / dialog calls that may be awaited at once.
MaxInFlight == 1
\* The debounce delay (1000 ms) in clock ticks.
Delay == 2
\* The tallest scrollable content, in pixels.
MaxHeight == 3

\* ------------------------------------------------------------ value sets
Null == "null"
Texts == {"", "a", "b"}
Paths == {"p", "q"}
\* How a file-system call can fail: {success:false, error:"EIO"},
\* {success:false} without error text, or a rejection with a non-Error value
\* (a rejection with an Error gives the same message as the first).
Failures == {"error", "noError", "throwOther"}

\* The settings the model reads, and the delays the settings dialog offers.
AutoSaveDelays == {500, 1000, 5000}
SettingKeys == {"autoSave", "autoSaveDelay", "syncScroll"}
SettingValues(key) == IF key = "autoSaveDelay" THEN AutoSaveDelays ELSE BOOLEAN
AppSettings == [autoSave : BOOLEAN, autoSaveDelay : AutoSaveDelays, syncScroll : BOOLEAN]
DEFAULT_SETTINGS == [autoSave |-> TRUE, autoSaveDelay |-> 1000, syncScroll |-> TRUE]

\* The two scrollable views, and the two revisions of MemoPreview.vue.
Views == {"editor", "preview"}
Other(v) == IF v = "editor" THEN "preview" ELSE "editor"
Revisions == {"components", "part_013"}
\* The delay of the timer that clears the re-entrancy flag, in ms.
UnlockDelay == 100

\* The registry roots registry.ts writes under: HKCR (machine-wide, chosen
\* when isAdmin()) and HKCU\Software\Classes.
Roots == {"HKCR", "HKCU"}
\* The reg add commands of registerFileAssociation and registerContextMenu,
\* numbered in the order they run, and the reg delete commands of
\* unregisterWindowsIntegration.
FileSteps == 1..6
MenuSteps == 7..12
RegisterSteps == FileSteps \cup MenuSteps
RefreshStep == 13
DeleteSteps == 1..4
\* How a reg.exe call can end: it works, access is denied, it fails with a
\* message, or it fails with an empty message.
Outcomes == {"ok", "denied", "error", "noMessage"}
NoExit == -1
Flags == {"--register", "--unregister"}

\* ------------------------------------------------------------- variables
VARIABLES
    currentFilePath,   \* Null or the path of the open document
    content,           \* editor content
    originalContent,   \* content at the last load / save completion
    fileMetadata,      \* Null or the filePath of the loaded FileMetadata
    saveStatus,        \* "saved" | "unsaved" | "saving" | "error"
    errorMessage,      \* Null or a message
    timer,             \* debounce timer: Idle or ticks left until it fires
    ops,               \* bag of the calls being awaited
    event,             \* history: the handler segment that ran last (ticks aside)
    burst,             \* history: the current run of rapid edits
    sinceEdit,         \* history: ticks since the last edit of the burst
    persisted,         \* history: text last successfully written or loaded
    staleTimer,        \* history: the pending timer was armed before createNewFile
    cleanOpen          \* history: an openFile running with nothing else

\* The Settings Store and the config service behind it.
VARIABLES
    settings,          \* settingStore.settings (the fields the model reads)
    configSettings,    \* WindowsConfigService.settings, the service's copy
    localStorage,      \* the records stored under '0xNote:settings': none or one
    settingsEvent      \* history: the settings operation that ran last, the
                       \* settings it meant to leave, and whether storage took them

\* The scroll synchronisation of App.vue and the two views.
VARIABLES
    dom,               \* per view: scrollTop, scrollHeight, clientHeight
    refs,              \* per view: is editorRef / previewRef set
    previewRevision,   \* which revision of MemoPreview.vue is built
    isSyncingScroll,   \* the re-entrancy flag of App.vue
    unlockTimers,      \* bag of the delays of the pending setTimeout calls
    pendingScroll,     \* per view: "none", or what caused its queued scroll event
    lastScroll         \* history: the scroll event that was handled last

\* The main process and the registry of the machine.
VARIABLES
    proc,              \* "off" | "silent" | "normal" | "exited"
    args,              \* the flags on the command line
    admin,             \* does isAdmin() hold for the account the program runs under
    task,              \* "none" | "register" | "unregister": what is running
    pc,                \* the command of the running task that comes next
    regResult,         \* the RegistryResult the last finished task returned
    windowCreated,     \* was createWindow() called by this process
    exitCode,          \* NoExit or the code given to process.exit
    registry,          \* per root: the '.md' default value and our entries
    regLog             \* history: the outcomes of the running or last task

fileVars == <<currentFilePath, content, originalContent, fileMetadata, saveStatus,
              errorMessage, timer, ops, event, burst, sinceEdit,
              persisted, staleTimer, cleanOpen>>

settingVars == <<settings, configSettings, localStorage, settingsEvent>>

scrollVars == <<dom, refs, previewRevision, isSyncingScroll, unlockTimers,
                pendingScroll, lastScroll>>

registryVars == <<proc, args, admin, task, pc, regResult, windowCreated,
                  exitCode, registry, regLog>>

\* What the File Store, the Settings Store, the scroll handlers and the main
\* process never touch.
outsideFileStore == <<settingVars, scrollVars, registryVars>>
outsideSettings == <<fileVars, scrollVars, registryVars>>
outsideScroll == <<fileVars, settingVars, registryVars>>
outsideMain == <<fileVars, settingVars, scrollVars>>

vars == <<fileVars, settingVars, scrollVars, registryVars>>

doc == <<currentFilePath, content, originalContent, fileMetadata>>

Idle == -1

\* ---------------------------------------------------------------- helpers
Min(a, b) == IF a < b THEN a ELSE b

Put(b, op) == b (+) SetToBag({op})

Take(b, op) == b (-) SetToBag({op})

InFlight == BagCardinality(ops)

Op(kind, path, text) == [kind |-> kind, path |-> path, text |-> text]

Ev(name, fs, path, text, auto, ret) ==
    [name |-> name, fs |-> fs, path |-> path, text |-> text,
     auto |-> auto, ret |-> ret]

NoBurst == [open |-> FALSE, edits |-> 0, last |-> Null, dirty |-> FALSE, log |-> <<>>]

NoOpen == [stage |-> "none", path |-> Null, data |-> Null]

\* error instanceof Error ? error.message : '未知错误', with the default
\* message of `result.error ?? default` for a result that carries no error.
ErrMsg(f, default) ==
    CASE f = "error"      -> "EIO"
      [] f = "noError"    -> default
      [] f = "noData"     -> default
      [] f = "throwOther" -> "unknown error"

ReadDefault == "read failed"
SaveDefault == "save failed"

\* ---------------------------------------------------------------- getters
HasUnsavedChanges(c, o) == c # o

hasUnsavedChanges == HasUnsavedChanges(content, originalContent)

isNewFile == currentFilePath = Null

TimerDue == timer = 0

WriteInFlight == \E op \in BagToSet(ops) : op.kind = "writeFile"

OpenInFlight == \E op \in BagToSet(ops) : op.kind \in {"readFile", "getFileMetadata"}

\* A scrollable element, heights and offset in whole pixels.
Element(scrollTop, scrollHeight, clientHeight) ==
    [scrollTop |-> scrollTop, scrollHeight |-> scrollHeight, clientHeight |-> clientHeight]

\* A scroll value passed to the handlers of App.vue, as the fraction num / den.
Pct(num, den) == [num |-> num, den |-> den]

NoScroll == [view |-> "none", top |-> 0, p |-> Pct(0, 1), sent |-> FALSE, cause |-> "none"]

\* A RegistryResult.
Result(success, error) == [success |-> success, error |-> error]
NoResult == Result(FALSE, "none")

\* What one root holds: the default value of '.md' ("absent", "other" for
\* another program's file type, or "0xNote") and the entries written by the
\* reg add commands 2..12.
Key(md, entries) == [md |-> md, entries |-> entries]

NoLog == [task |-> "none", root |-> "HKCU", ok |-> {}, failed |-> "none",
          mdBefore |-> "absent", done |-> FALSE]

NoSettingsEvent == [name |-> "init", want |-> DEFAULT_SETTINGS, stored |-> FALSE]

\* ------------------------------------------------------------------- Init
\* The stores after construction: settings hold the defaults, the config
\* service found nothing stored, no view is mounted yet.
SettingsInit ==
    /\ settings = DEFAULT_SETTINGS
    /\ configSettings = DEFAULT_SETTINGS
    /\ localStorage = {}
    /\ settingsEvent = NoSettingsEvent

ScrollIdle ==
    /\ refs = [v \in Views |-> FALSE]
    /\ isSyncingScroll = FALSE
    /\ unlockTimers = EmptyBag
    /\ pendingScroll = [v \in Views |-> "none"]
    /\ lastScroll = NoScroll

FileStoreInit ==
    /\ currentFilePath = Null
    /\ content = ""
    /\ originalContent = ""
    /\ fileMetadata = Null
    /\ saveStatus = "saved"
    /\ errorMessage = Null
    /\ timer = Idle
    /\ ops = EmptyBag
    /\ event = Ev("init", "none", Null, Null, FALSE, "none")
    /\ burst = NoBurst
    /\ sinceEdit = Delay
    /\ persisted = ""
    /\ staleTimer = FALSE
    /\ cleanOpen = NoOpen

\* No process runs yet.  Whether isAdmin() holds belongs to the account and
\* stays as it is from one start of the program to the next.
MainOff ==
    /\ proc = "off"
    /\ args = {}
    /\ task = "none"
    /\ pc = 0
    /\ regResult = NoResult
    /\ windowCreated = FALSE
    /\ exitCode = NoExit
    /\ regLog = NoLog

Init ==
    /\ FileStoreInit
    /\ SettingsInit
    /\ ScrollIdle
    /\ dom = [v \in Views |-> Element(0, 1, 1)]
    /\ previewRevision = "components"
    /\ MainOff
    /\ admin = FALSE
    /\ registry = [r \in Roots |-> Key("other", {})]


\* ------------------------------------------------- pieces of the handlers
\* Variant: the watcher never arms the debounce timer.
WatchContent_Never(changed, dirty) == FALSE

\* Variant: the watcher arms the debounce timer on every change of content.
WatchContent_AnyChange(changed, dirty) == changed

\* watch(content, cb): cb runs when the value changed, and calls
\* debouncedSave() when the document is dirty.
WatchContent(changed, dirty) == changed /\ dirty

\* Variant: a call while a timer is pending leaves that timer running.
Debounce_KeepsPending(pending) == IF pending # Idle THEN pending ELSE Delay

\* debouncedSave(): a call of the debounced function cancels the pending
\* timer, if any, and starts one of the full delay.
Debounce(pending) == Delay

\* Variant: the debounced callback saves whenever there is a path.
DebouncedSaveGuard_PathOnly(path, dirty) == path # Null

\* Variant: the debounced callback saves whenever the document is dirty.
DebouncedSaveGuard_DirtyOnly(path, dirty) == dirty

\* The condition under which the debounced callback calls saveFile().
DebouncedSaveGuard(path, dirty) == path # Null /\ dirty

\* Variant: saveFile ignores forcePath.
TargetPath_CurrentOnly(forcePath) == currentFilePath

\* const targetPath = forcePath ?? currentFilePath.value
TargetPath(forcePath) == IF forcePath # Null THEN forcePath ELSE currentFilePath

\* The text handed to fs.writeFile.
WriteArg == content

\* Variant: originalContent becomes the text that was written.
SavedOriginal_Written(written) == written

\* originalContent.value = content.value, at the completion of the write.
SavedOriginal(written) == content

\* saveFileAs() up to its await of showSaveDialog.
SaveFileAsCall(base, auto, name) ==
    /\ ops' = Put(base, Op("showSaveDialog", Null, Null))
    /\ event' = Ev(name, "showSaveDialog", Null, Null, auto, "none")
    /\ UNCHANGED <<doc, saveStatus, errorMessage>>

\* saveFile(forcePath) up to its await of writeFile.
SaveFileCall(base, forcePath, auto, name) ==
    LET targetPath == TargetPath(forcePath) IN
    IF targetPath = Null
    THEN SaveFileAsCall(base, auto, name)
    ELSE /\ saveStatus' = "saving"
         /\ errorMessage' = Null
         /\ ops' = Put(base, Op("writeFile", targetPath, WriteArg))
         /\ event' = Ev(name, "writeFile", targetPath, WriteArg, auto, "none")
         /\ UNCHANGED doc

\* Variant: the catch block of openFile also resets the document.
OpenCatch_ClearsDocument(msg) ==
    /\ errorMessage' = msg
    /\ saveStatus' = "error"
    /\ content' = ""
    /\ originalContent' = ""
    /\ currentFilePath' = Null
    /\ fileMetadata' = Null

\* The catch block of openFile.
OpenCatch(msg) ==
    /\ errorMessage' = msg
    /\ saveStatus' = "error"
    /\ UNCHANGED doc

\* Variant: the catch block of saveFile leaves saveStatus as it is.
SaveCatch_KeepsStatus(msg) ==
    /\ errorMessage' = msg
    /\ UNCHANGED <<doc, saveStatus>>

\* Variant: the catch block of saveFile also marks the content as saved.
SaveCatch_MarksSaved(msg) ==
    /\ errorMessage' = msg
    /\ saveStatus' = "error"
    /\ originalContent' = content
    /\ UNCHANGED <<currentFilePath, content, fileMetadata>>

\* The catch block of saveFile (and of saveFileAs).
SaveCatch(msg) ==
    /\ errorMessage' = msg
    /\ saveStatus' = "error"
    /\ UNCHANGED doc

\* Variant: openFile does not record the path of the file it loaded.
OpenApply_KeepsPath(filePath, data) ==
    /\ content' = data
    /\ originalContent' = data
    /\ UNCHANGED <<currentFilePath, fileMetadata, saveStatus, errorMessage>>

\* openFile after a successful readFile, up to its await of getFileMetadata.
OpenApply(filePath, data) ==
    /\ content' = data
    /\ originalContent' = data
    /\ currentFilePath' = filePath
    /\ UNCHANGED <<fileMetadata, saveStatus, errorMessage>>

\* saveFile after a successful writeFile.
SaveApply(targetPath, written) ==
    /\ originalContent' = SavedOriginal(written)
    /\ currentFilePath' = targetPath
    /\ saveStatus' = "saved"
    /\ UNCHANGED <<content, fileMetadata, errorMessage>>

\* ---------------------------------------------------------------- history
Spoil == burst' = NoBurst /\ sinceEdit' = Delay

ResetOpen == cleanOpen' = NoOpen

\* ---------------------------------------------------------------- actions
\* updateContent(newContent), followed by the content watcher.
UpdateContent(c) ==
    LET changed == c # content
        dirty   == HasUnsavedChanges(c, originalContent)
        rapid   == burst.open /\ sinceEdit < Delay
    IN
    /\ ~TimerDue
    /\ content' = c
    /\ saveStatus' = IF dirty THEN "unsaved" ELSE saveStatus
    /\ timer' = IF WatchContent(changed, dirty) THEN Debounce(timer) ELSE timer
    /\ staleTimer' = IF WatchContent(changed, dirty) THEN FALSE ELSE staleTimer
    /\ event' = Ev("updateContent", "none", Null, Null, FALSE, "none")
    /\ burst' = IF ~changed THEN NoBurst
                ELSE IF rapid
                THEN [burst EXCEPT !.edits = Min(@ + 1, 2), !.last = c, !.dirty = dirty]
                ELSE IF currentFilePath # Null /\ ops = EmptyBag
                THEN [open |-> TRUE, edits |-> 1, last |-> c, dirty |-> dirty, log |-> <<>>]
                ELSE NoBurst
    /\ sinceEdit' = IF burst'.open THEN 0 ELSE Delay
    /\ ResetOpen
    /\ UNCHANGED <<currentFilePath, originalContent, fileMetadata,
                   errorMessage, ops, persisted>>
    /\ UNCHANGED outsideFileStore

\* openFile(filePath) up to its await of readFile.
OpenFile(p) ==
    /\ ~TimerDue
    /\ InFlight < MaxInFlight
    /\ saveStatus' = "saving"
    /\ errorMessage' = Null
    /\ ops' = Put(ops, Op("readFile", p, Null))
    /\ event' = Ev("openFile", "readFile", p, Null, FALSE, "none")
    /\ cleanOpen' = IF ops = EmptyBag
                    THEN [stage |-> "reading", path |-> p, data |-> Null]
                    ELSE NoOpen
    /\ Spoil
    /\ UNCHANGED <<doc, timer, staleTimer, persisted>>
    /\ UNCHANGED outsideFileStore

\* readFile resolved with {success: true, data}.
ReadFileDone(op, data) ==
    /\ op \in BagToSet(ops)
    /\ op.kind = "readFile"
    /\ OpenApply(op.path, data)
    /\ ops' = Put(Take(ops, op), Op("getFileMetadata", op.path, Null))
    /\ event' = Ev("readFileDone", "getFileMetadata", op.path, data, FALSE, "none")
    /\ persisted' = data
    /\ cleanOpen' = IF cleanOpen.stage = "reading"
                    THEN [cleanOpen EXCEPT !.stage = "meta", !.data = data]
                    ELSE NoOpen
    /\ UNCHANGED <<timer, staleTimer, burst, sinceEdit>>
    /\ UNCHANGED outsideFileStore

\* readFile failed: success false, no data, or a rejection.
ReadFileFail(op, f) ==
    /\ op \in BagToSet(ops)
    /\ op.kind = "readFile"
    /\ OpenCatch(ErrMsg(f, ReadDefault))
    /\ ops' = Take(ops, op)
    /\ event' = Ev("readFileFail", "none", op.path, Null, FALSE, "false")
    /\ ResetOpen
    /\ UNCHANGED <<timer, staleTimer, burst, sinceEdit, persisted>>
    /\ UNCHANGED outsideFileStore

\* getFileMetadata settled: "ok" with data, "fail" without, or a rejection.
MetadataDone(op, r) ==
    /\ op \in BagToSet(ops)
    /\ op.kind = "getFileMetadata"
    /\ IF r = "throwOther"
       THEN /\ OpenCatch(ErrMsg(r, ReadDefault))
            /\ event' = Ev("metadataDone", "none", op.path, Null, FALSE, "false")
            /\ ResetOpen
       ELSE /\ fileMetadata' = IF r = "ok" THEN op.path ELSE fileMetadata
            /\ saveStatus' = "saved"
            /\ UNCHANGED <<currentFilePath, content, originalContent, errorMessage>>
            /\ event' = Ev("metadataDone", "none", op.path, Null, FALSE, "true")
            /\ cleanOpen' = IF cleanOpen.stage = "meta"
                            THEN [cleanOpen EXCEPT !.stage = "opened"]
                            ELSE NoOpen
    /\ ops' = Take(ops, op)
    /\ UNCHANGED <<timer, staleTimer, burst, sinceEdit, persisted>>
    /\ UNCHANGED outsideFileStore

\* saveFile() called by the user (Ctrl+S, title bar), up to its first await.
SaveFile ==
    /\ ~TimerDue
    /\ InFlight < MaxInFlight
    /\ SaveFileCall(ops, Null, FALSE, "saveFile")
    /\ cleanOpen' = IF cleanOpen.stage = "opened"
                    THEN [cleanOpen EXCEPT !.stage = "resaved"]
                    ELSE NoOpen
    /\ Spoil
    /\ UNCHANGED <<timer, staleTimer, persisted>>
    /\ UNCHANGED outsideFileStore

\* saveFileAs() called by the user, up to its await of showSaveDialog.
SaveFileAs ==
    /\ ~TimerDue
    /\ InFlight < MaxInFlight
    /\ SaveFileAsCall(ops, FALSE, "saveFileAs")
    /\ ResetOpen
    /\ Spoil
    /\ UNCHANGED <<timer, staleTimer, persisted>>
    /\ UNCHANGED outsideFileStore

\* Variant: a cancelled dialog is treated like a failed save.
DialogCancelled_MarksError(base) ==
    /\ ops' = base
    /\ event' = Ev("saveDialogDone", "cancel", Null, Null, FALSE, "false")
    /\ saveStatus' = "error"
    /\ UNCHANGED <<doc, errorMessage>>

\* saveFileAs() after showSaveDialog returned no path: `return false`.
DialogCancelled(base) ==
    /\ ops' = base
    /\ event' = Ev("saveDialogDone", "cancel", Null, Null, FALSE, "false")
    /\ UNCHANGED <<doc, saveStatus, errorMessage>>

\* showSaveDialog settled: "cancel", a chosen path, or a rejection.
SaveDialogDone(op, r) ==
    /\ op \in BagToSet(ops)
    /\ op.kind = "showSaveDialog"
    /\ CASE r = "cancel" ->
              DialogCancelled(Take(ops, op))
         [] r = "throwOther" ->
              /\ SaveCatch(ErrMsg(r, SaveDefault))
              /\ ops' = Take(ops, op)
              /\ event' = Ev("saveDialogDone", "none", Null, Null, FALSE, "false")
         [] OTHER ->
              SaveFileCall(Take(ops, op), r, FALSE, "saveDialogDone")
    /\ ResetOpen
    /\ UNCHANGED <<timer, staleTimer, burst, sinceEdit, persisted>>
    /\ UNCHANGED outsideFileStore

\* writeFile settled: "ok", or one of Failures.
WriteFileDone(op, r) ==
    /\ op \in BagToSet(ops)
    /\ op.kind = "writeFile"
    /\ IF r = "ok"
       THEN /\ SaveApply(op.path, op.text)
            /\ persisted' = op.text
            /\ event' = Ev("writeFileDone", "none", Null, Null, FALSE, "true")
       ELSE /\ SaveCatch(ErrMsg(r, SaveDefault))
            /\ UNCHANGED persisted
            /\ event' = Ev("writeFileDone", "none", Null, Null, FALSE, "false")
    /\ ops' = Take(ops, op)
    /\ ResetOpen
    /\ UNCHANGED <<timer, staleTimer, burst, sinceEdit>>
    /\ UNCHANGED outsideFileStore

\* createNewFile(), followed by the content watcher (never dirty here).
CreateNewFile ==
    /\ ~TimerDue
    /\ content' = ""
    /\ originalContent' = ""
    /\ currentFilePath' = Null
    /\ fileMetadata' = Null
    /\ saveStatus' = "saved"
    /\ errorMessage' = Null
    /\ timer' = IF WatchContent(content # "", HasUnsavedChanges("", ""))
                THEN Debounce(timer) ELSE timer
    /\ staleTimer' = (timer' # Idle)
    /\ event' = Ev("createNewFile", "none", Null, Null, FALSE, "none")
    /\ persisted' = ""
    /\ ResetOpen
    /\ Spoil
    /\ UNCHANGED ops
    /\ UNCHANGED outsideFileStore

\* One clock tick; a due timer fires before time advances.
Tick ==
    /\ ~TimerDue
    /\ timer # Idle \/ (burst.open /\ sinceEdit < Delay)
    /\ timer' = IF timer = Idle THEN Idle ELSE timer - 1
    /\ sinceEdit' = IF burst.open THEN Min(sinceEdit + 1, Delay) ELSE Delay
    /\ cleanOpen' = IF cleanOpen.stage = "resaved" THEN NoOpen ELSE cleanOpen
    /\ UNCHANGED <<doc, saveStatus, errorMessage, ops, event, burst, persisted,
                   staleTimer>>
    /\ UNCHANGED outsideFileStore

\* The debounce timer fires: the callback passed to debounce().
DebouncedSave ==
    /\ TimerDue
    /\ timer' = Idle
    /\ staleTimer' = FALSE
    /\ IF DebouncedSaveGuard(currentFilePath, hasUnsavedChanges)
       THEN /\ InFlight < MaxInFlight
            /\ SaveFileCall(ops, Null, TRUE, "debouncedSave")
            /\ burst' = IF burst.open /\ Len(burst.log) < 2
                        THEN [burst EXCEPT !.log = Append(@, <<event'.fs, event'.path, event'.text>>)]
                        ELSE burst
            /\ ResetOpen
       ELSE /\ event' = Ev("debouncedSave", "none", Null, Null, TRUE, "none")
            /\ cleanOpen' = IF cleanOpen.stage = "resaved" THEN NoOpen ELSE cleanOpen
            /\ UNCHANGED <<doc, saveStatus, errorMessage, ops, burst>>
    /\ UNCHANGED <<sinceEdit, persisted>>
    /\ UNCHANGED outsideFileStore

Next ==
    \/ \E c \in Texts : UpdateContent(c)
    \/ \E p \in Paths : OpenFile(p)
    \/ \E op \in BagToSet(ops), d \in Texts : ReadFileDone(op, d)
    \/ \E op \in BagToSet(ops), f \in Failures \cup {"noData"} : ReadFileFail(op, f)
    \/ \E op \in BagToSet(ops), r \in {"ok", "fail", "throwOther"} : MetadataDone(op, r)
    \/ SaveFile
    \/ SaveFileAs
    \/ \E op \in BagToSet(ops), r \in {"cancel", "throwOther"} \cup Paths : SaveDialogDone(op, r)
    \/ \E op \in BagToSet(ops), r \in {"ok"} \cup Failures : WriteFileDone(op, r)
    \/ CreateNewFile
    \/ Tick
    \/ DebouncedSave

Spec == Init /\ [][Next]_vars

TypeOK ==
    /\ currentFilePath \in Paths \cup {Null}
    /\ content \in Texts
    /\ originalContent \in Texts
    /\ fileMetadata \in Paths \cup {Null}
    /\ saveStatus \in {"saved", "unsaved", "saving", "error"}
    /\ timer \in Idle..Delay
    /\ InFlight <= MaxInFlight
    /\ sinceEdit \in 0..Delay
    /\ persisted \in Texts
    /\ staleTimer \in BOOLEAN


\* ------------------------------------------- the autosave scenario, fair
\* The operations on the autosave path only: opening a document, edits, the
\* clock, the debounce timer and the write it starts.
AutosaveNext ==
    \/ \E c \in Texts : UpdateContent(c)
    \/ \E p \in Paths : OpenFile(p)
    \/ \E op \in BagToSet(ops), d \in Texts : ReadFileDone(op, d)
    \/ \E op \in BagToSet(ops), r \in {"ok", "fail"} : MetadataDone(op, r)
    \/ \E op \in BagToSet(ops), r \in {"ok"} \cup Failures : WriteFileDone(op, r)
    \/ Tick
    \/ DebouncedSave

\* The event loop keeps running: time advances and a due timer fires.
AutosaveSpec == Init /\ [][AutosaveNext]_vars /\ WF_vars(Tick) /\ WF_vars(DebouncedSave)

\* ------------------------------------------------------ the Settings Store
\* Variant: the service keeps its copy only when the write to storage worked.
SaveToStorage_Strict(ok) ==
    /\ localStorage' = IF ok THEN {settings'} ELSE localStorage
    /\ configSettings' = IF ok THEN settings' ELSE configSettings

\* WindowsConfigService.saveSettings: copy the record, then saveToStorage,
\* whose setItem may throw (ok = FALSE); the error is logged and swallowed.
SaveToStorage(ok) ==
    /\ configSettings' = settings'
    /\ localStorage' = IF ok THEN {settings'} ELSE localStorage

\* settingStore.saveSettings(), with the continuation of its await.
SaveSettings(name, want, ok) ==
    /\ SaveToStorage(ok)
    /\ settingsEvent' = [name |-> name, want |-> want, stored |-> ok]

\* settingStore.updateSetting(key, value)
UpdateSetting(key, value, ok) ==
    /\ settings' = [settings EXCEPT ![key] = value]
    /\ SaveSettings("updateSetting", [settings EXCEPT ![key] = value], ok)
    /\ UNCHANGED outsideSettings

\* settingStore.resetToDefaults()
ResetToDefaults(ok) ==
    /\ settings' = DEFAULT_SETTINGS
    /\ SaveSettings("resetToDefaults", DEFAULT_SETTINGS, ok)
    /\ UNCHANGED outsideSettings

\* SettingsModal handleSave: Object.assign(settingStore.settings, localSettings),
\* then saveSettings().  localSettings is what the user left in the dialog.
HandleSave(localSettings, ok) ==
    /\ settings' = localSettings
    /\ SaveSettings("handleSave", localSettings, ok)
    /\ UNCHANGED outsideSettings

\* settingStore.loadSettings(): take the service's copy.
LoadSettings ==
    /\ settings' = configSettings
    /\ settingsEvent' = [name |-> "loadSettings", want |-> configSettings, stored |-> FALSE]
    /\ UNCHANGED <<configSettings, localStorage>>
    /\ UNCHANGED outsideSettings

SettingsNext ==
    \/ \E key \in SettingKeys, ok \in BOOLEAN :
          \E value \in SettingValues(key) : UpdateSetting(key, value, ok)
    \/ \E ok \in BOOLEAN : ResetToDefaults(ok)
    \/ \E localSettings \in AppSettings, ok \in BOOLEAN : HandleSave(localSettings, ok)
    \/ LoadSettings

SettingsSpec == Init /\ [][SettingsNext]_vars

\* ------------------------------------------------- scroll synchronisation
\* View geometries: the content is at least as tall as the viewport.
Geometries ==
    {Element(0, g[1], g[2]) :
        g \in {h \in (1..MaxHeight) \X (1..MaxHeight) : h[2] <= h[1]}}

\* The largest scrollTop the browser accepts for an element.
ScrollLimit(el) ==
    IF el.scrollHeight > el.clientHeight THEN el.scrollHeight - el.clientHeight ELSE 0

\* A pixel offset num / den snapped to whole pixels (halves go up).
Snap(num, den) == (2 * num + den) \div (2 * den)

\* MemoEditor.vue handleScroll: the value passed to emit('scroll', ...).
EditorHandleScroll(el) ==
    LET maxScroll == el.scrollHeight - el.clientHeight IN
    IF maxScroll > 0 THEN Pct(el.scrollTop, maxScroll) ELSE Pct(0, 1)

\* components/MemoPreview.vue handleScroll: emit('scroll', scrollTop,
\* scrollHeight); the handler of App.vue takes the first argument.
PreviewHandleScroll(el) == Pct(el.scrollTop, 1)

\* The revision of MemoPreview.vue in part_013: the same computation as the
\* editor's.
PreviewHandleScrollPart013(el) ==
    LET maxScroll == el.scrollHeight - el.clientHeight IN
    IF maxScroll > 0 THEN Pct(el.scrollTop, maxScroll) ELSE Pct(0, 1)

\* What view v passes to its scroll handler now.
Emitted(v) ==
    IF v = "editor" THEN EditorHandleScroll(dom[v])
    ELSE IF previewRevision = "components" THEN PreviewHandleScroll(dom[v])
    ELSE PreviewHandleScrollPart013(dom[v])

\* scrollToPercentage(percentage) of either view: scrollTop = maxScroll *
\* percentage, which the browser clamps into the scrollable range.
scrollToPercentage(el, percentage) ==
    LET maxScroll == el.scrollHeight - el.clientHeight
        target    == Snap(maxScroll * percentage.num, percentage.den)
    IN  [el EXCEPT !.scrollTop = IF target < 0 THEN 0 ELSE Min(target, ScrollLimit(el))]

\* Variant: the handlers do not look at the re-entrancy flag.
SyncIgnored_NoFlag(other) == ~settings.syncScroll \/ ~refs[other]

\* The two early returns of handleEditorScroll / handlePreviewScroll.
SyncIgnored(other) == ~settings.syncScroll \/ isSyncingScroll \/ ~refs[other]

\* handleEditorScroll / handlePreviewScroll with the value the view emitted.
HandleViewScroll(v, percentage, cause) ==
    LET other == Other(v)
        moved == scrollToPercentage(dom[other], percentage)
    IN
    IF SyncIgnored(other)
    THEN /\ lastScroll' = [view |-> v, top |-> dom[v].scrollTop, p |-> percentage,
                           sent |-> FALSE, cause |-> cause]
         /\ pendingScroll' = [pendingScroll EXCEPT ![v] = "none"]
         /\ UNCHANGED <<dom, isSyncingScroll, unlockTimers>>
    ELSE /\ isSyncingScroll' = TRUE
         /\ dom' = [dom EXCEPT ![other] = moved]
         /\ unlockTimers' = unlockTimers (+) SetToBag({UnlockDelay})
         /\ pendingScroll' =
               [pendingScroll EXCEPT
                  ![v] = "none",
                  ![other] = IF moved.scrollTop = dom[other].scrollTop THEN @
                             ELSE IF @ = "user" THEN "user" ELSE "command"]
         /\ lastScroll' = [view |-> v, top |-> dom[v].scrollTop, p |-> percentage,
                           sent |-> TRUE, cause |-> cause]

\* App.vue mounts a view: its template ref is set.
MountView(v) ==
    /\ ~refs[v]
    /\ refs' = [refs EXCEPT ![v] = TRUE]
    /\ UNCHANGED <<dom, previewRevision, isSyncingScroll, unlockTimers,
                   pendingScroll, lastScroll>>
    /\ UNCHANGED outsideScroll

\* A view is unmounted: its ref is null again and its element is gone.
UnmountView(v) ==
    /\ refs[v]
    /\ refs' = [refs EXCEPT ![v] = FALSE]
    /\ pendingScroll' = [pendingScroll EXCEPT ![v] = "none"]
    /\ UNCHANGED <<dom, previewRevision, isSyncingScroll, unlockTimers, lastScroll>>
    /\ UNCHANGED outsideScroll

\* The user scrolls view v to another offset; the browser queues a scroll event.
UserScroll(v, top) ==
    /\ refs[v]
    /\ top \in 0..ScrollLimit(dom[v])
    /\ top # dom[v].scrollTop
    /\ dom' = [dom EXCEPT ![v].scrollTop = top]
    /\ pendingScroll' = [pendingScroll EXCEPT ![v] = "user"]
    /\ UNCHANGED <<refs, previewRevision, isSyncingScroll, unlockTimers, lastScroll>>
    /\ UNCHANGED outsideScroll

\* The queued scroll event of view v is dispatched: the view's handleScroll
\* emits, and the handler of App.vue runs.
DispatchScroll(v) ==
    /\ pendingScroll[v] # "none"
    /\ HandleViewScroll(v, Emitted(v), pendingScroll[v])
    /\ UNCHANGED <<refs, previewRevision>>
    /\ UNCHANGED outsideScroll

\* A setTimeout(() => { isSyncingScroll = false }, 100) callback runs.
Unlock(delay) ==
    /\ delay \in BagToSet(unlockTimers)
    /\ isSyncingScroll' = FALSE
    /\ unlockTimers' = unlockTimers (-) SetToBag({delay})
    /\ UNCHANGED <<dom, refs, previewRevision, pendingScroll, lastScroll>>
    /\ UNCHANGED outsideScroll

ScrollInit ==
    /\ FileStoreInit
    /\ SettingsInit
    /\ ScrollIdle
    /\ dom \in [Views -> Geometries]
    /\ previewRevision \in Revisions
    /\ MainOff
    /\ admin = FALSE
    /\ registry = [r \in Roots |-> Key("other", {})]

ScrollNext ==
    \/ \E v \in Views : MountView(v)
    \/ \E v \in Views : UnmountView(v)
    \/ \E v \in Views, top \in 0..MaxHeight : UserScroll(v, top)
    \/ \E v \in Views : DispatchScroll(v)
    \/ \E delay \in BagToSet(unlockTimers) : Unlock(delay)
    \/ \E value \in BOOLEAN : UpdateSetting("syncScroll", value, TRUE)

ScrollSpec == ScrollInit /\ [][ScrollNext]_vars

\* The two panels are the columns of one flex row of App.vue: the viewports
\* of the views have the same height, the documents any height.
ScrollFairInit ==
    /\ ScrollInit
    /\ dom["editor"].clientHeight = dom["preview"].clientHeight

\* The scroll synchronisation with the event loop running every timer
\* callback that is due: a pending setTimeout callback is eventually run.
ScrollFairSpec ==
    ScrollFairInit /\ [][ScrollNext]_vars
                   /\ WF_vars(\E delay \in BagToSet(unlockTimers) : Unlock(delay))

\* Nothing is queued and no timer is pending.
Quiescent ==
    /\ \A v \in Views : pendingScroll[v] = "none"
    /\ unlockTimers = EmptyBag

\* --------------------------------------- autosave under changing settings
\* The debounce delay of the File Store in milliseconds.
DebounceMs == 1000

\* Milliseconds in clock ticks: DebounceMs is Delay ticks.
TicksOf(ms) == (ms * Delay) \div DebounceMs

\* The autosave path of the File Store together with changes of the two
\* autosave settings.
ConfiguredNext ==
    \/ \E c \in Texts : UpdateContent(c)
    \/ \E p \in {"p"} : OpenFile(p)
    \/ \E op \in BagToSet(ops), d \in Texts : ReadFileDone(op, d)
    \/ \E op \in BagToSet(ops) : MetadataDone(op, "ok")
    \/ \E op \in BagToSet(ops) : WriteFileDone(op, "ok")
    \/ Tick
    \/ DebouncedSave
    \/ \E key \in {"autoSave", "autoSaveDelay"} :
          \E value \in SettingValues(key) : UpdateSetting(key, value, TRUE)

ConfiguredSpec == Init /\ [][ConfiguredNext]_vars

\* ------------------------------------- the main process and the registry
\* rootKey = isAdmin() ? 'HKCR' : 'HKCU\\Software\\Classes'
RootKey(isAdmin) == IF isAdmin THEN "HKCR" ELSE "HKCU"

\* Variant: executeRegCommand reports success whatever reg.exe did.
ExecuteRegCommand_AlwaysOk(outcome) == Result(TRUE, "none")

\* executeRegCommand: the RegistryResult for an outcome of reg.exe.
ExecuteRegCommand(outcome) ==
    CASE outcome = "ok"     -> Result(TRUE, "none")
      [] outcome = "denied" -> Result(FALSE, "requiresAdmin")
      [] outcome = "error"  -> Result(FALSE, "message")
      [] OTHER              -> Result(FALSE, "default")

\* reg add of command n: command 1 sets the default value of '.md', the
\* others write entries under keys of our own.
RegAdd(reg, root, n) ==
    IF n = 1 THEN [reg EXCEPT ![root].md = "0xNote"]
    ELSE [reg EXCEPT ![root].entries = @ \cup {n}]

\* The entries under the key that delete command n names: 0xNote.MarkdownFile,
\* Directory\Background\shell\0xNote, Directory\shell\0xNote.
EntriesUnder(n) ==
    CASE n = 2 -> 2..6
      [] n = 3 -> 7..9
      [] n = 4 -> 10..12
      [] OTHER -> {}

\* reg delete of command n: command 1 deletes the key '.md', the others a key
\* of our own with everything under it.
RegDelete(reg, root, n) ==
    IF n = 1 THEN [reg EXCEPT ![root].md = "absent"]
    ELSE [reg EXCEPT ![root].entries = @ \ EntriesUnder(n)]

\* isRegistered(): does HKCU\Software\Classes\0xNote.MarkdownFile exist.
isRegistered == registry["HKCU"].entries \cap EntriesUnder(2) # {}

\* Variant: the silent mode always exits with 0.
ExitCode_Zero(result) == 0

\* process.exit(result.success ? 0 : 1)
ExitCode(result) == IF result.success THEN 0 ELSE 1

StartLog(t, root) ==
    [task |-> t, root |-> root, ok |-> {}, failed |-> "none",
     mdBefore |-> registry[root].md, done |-> FALSE]

\* A registry task starts: its first command is next.
StartTask(t, isAdmin) ==
    /\ task' = t
    /\ pc' = 1
    /\ regResult' = NoResult
    /\ regLog' = StartLog(t, RootKey(isAdmin))

\* A registry task returns result; the silent mode then exits.
Finish(result) ==
    /\ regResult' = result
    /\ task' = "none"
    /\ pc' = 0
    /\ IF proc = "silent"
       THEN proc' = "exited" /\ exitCode' = ExitCode(result)
       ELSE UNCHANGED <<proc, exitCode>>

\* The process starts with --register and / or --unregister.
LaunchSilent(flags) ==
    /\ proc \in {"off", "exited"}
    /\ flags # {}
    /\ proc' = "silent"
    /\ args' = flags
    /\ windowCreated' = FALSE
    /\ exitCode' = NoExit
    /\ StartTask(IF "--register" \in flags THEN "register" ELSE "unregister", admin)
    /\ UNCHANGED <<admin, registry>>
    /\ UNCHANGED outsideMain

\* The process starts without these flags: the window is created, and a
\* packaged build registers itself when isRegistered() is false.
LaunchNormal(isPackaged) ==
    /\ proc \in {"off", "exited"}
    /\ proc' = "normal"
    /\ args' = {}
    /\ windowCreated' = TRUE
    /\ exitCode' = NoExit
    /\ IF isPackaged /\ ~isRegistered
       THEN StartTask("register", admin)
       ELSE /\ task' = "none"
            /\ pc' = 0
            /\ regResult' = NoResult
            /\ regLog' = NoLog
    /\ UNCHANGED <<admin, registry>>
    /\ UNCHANGED outsideMain

\* ipcMain 'registry:register' / 'registry:unregister' from the window.
IpcRegistry(t) ==
    /\ proc = "normal"
    /\ task = "none"
    /\ StartTask(t, admin)
    /\ UNCHANGED <<proc, args, admin, windowCreated, exitCode, registry>>
    /\ UNCHANGED outsideMain

\* One reg add command of registerFileAssociation / registerContextMenu ends.
RegisterStep(outcome) ==
    LET result == ExecuteRegCommand(outcome) IN
    /\ task = "register"
    /\ pc \in RegisterSteps
    /\ registry' = IF outcome = "ok" THEN RegAdd(registry, RootKey(admin), pc) ELSE registry
    /\ IF result.success
       THEN /\ pc' = pc + 1
            /\ UNCHANGED <<task, regResult, proc, exitCode>>
       ELSE Finish(result)
    /\ regLog' = [regLog EXCEPT
                    !.ok = IF outcome = "ok" THEN @ \cup {pc} ELSE @,
                    !.failed = IF outcome # "ok" /\ @ = "none" THEN outcome ELSE @,
                    !.done = ~result.success]
    /\ UNCHANGED <<args, admin, windowCreated>>
    /\ UNCHANGED outsideMain

\* ie4uinit.exe -show ends, one way or the other; registration succeeded.
RefreshShell(outcome) ==
    /\ task = "register"
    /\ pc = RefreshStep
    /\ Finish(Result(TRUE, "none"))
    /\ regLog' = [regLog EXCEPT !.done = TRUE]
    /\ UNCHANGED <<args, admin, windowCreated, registry>>
    /\ UNCHANGED outsideMain

\* One reg delete command of unregisterWindowsIntegration ends; a failure is
\* ignored.  After the last one the task returns success.
UnregisterStep(outcome) ==
    /\ task = "unregister"
    /\ pc \in DeleteSteps
    /\ registry' = IF outcome = "ok" THEN RegDelete(registry, RootKey(admin), pc) ELSE registry
    /\ IF pc + 1 \in DeleteSteps
       THEN /\ pc' = pc + 1
            /\ UNCHANGED <<task, regResult, proc, exitCode>>
       ELSE Finish(Result(TRUE, "none"))
    /\ regLog' = [regLog EXCEPT
                    !.ok = IF outcome = "ok" THEN @ \cup {pc} ELSE @,
                    !.failed = IF outcome # "ok" /\ @ = "none" THEN outcome ELSE @,
                    !.done = pc + 1 \notin DeleteSteps]
    /\ UNCHANGED <<args, admin, windowCreated>>
    /\ UNCHANGED outsideMain

\* The window is closed: app.quit().
Quit ==
    /\ proc = "normal"
    /\ task = "none"
    /\ proc' = "exited"
    /\ exitCode' = 0
    /\ UNCHANGED <<args, admin, task, pc, regResult, windowCreated, registry, regLog>>
    /\ UNCHANGED outsideMain

RegistryInit ==
    /\ FileStoreInit
    /\ SettingsInit
    /\ ScrollIdle
    /\ dom = [v \in Views |-> Element(0, 1, 1)]
    /\ previewRevision = "components"
    /\ MainOff
    /\ admin \in BOOLEAN
    /\ registry \in [Roots -> {Key(md, {}) : md \in {"absent", "other"}}]

RegistryNext ==
    \/ \E flags \in SUBSET Flags : LaunchSilent(flags)
    \/ \E isPackaged \in BOOLEAN : LaunchNormal(isPackaged)
    \/ \E t \in {"register", "unregister"} : IpcRegistry(t)
    \/ \E outcome \in Outcomes : RegisterStep(outcome)
    \/ \E outcome \in Outcomes : RefreshShell(outcome)
    \/ \E outcome \in Outcomes : UnregisterStep(outcome)
    \/ Quit

RegistrySpec == RegistryInit /\ [][RegistryNext]_vars

\* ------------------------------------------------------------------ claims
\* A run of rapid edits is over: the delay has elapsed since its last edit
\* and the timer that was due has fired.
BurstDone == burst.open /\ sinceEdit = Delay /\ ~TimerDue

\* C1: saveStatus is never 'saved' while content differs from
\* originalContent, in any interleaving of the store's operations.
C1_SavedNeverDirty == saveStatus = "saved" => ~hasUnsavedChanges

\* C2: after updateContent calls with nothing in flight, hasUnsavedChanges
\* is true exactly when content differs from the text last successfully
\* saved or loaded.
C2_DirtyIffDiffersFromPersisted ==
    (event.name = "updateContent" /\ ops = EmptyBag)
        => (hasUnsavedChanges <=> content # persisted)

\* C3: right after a successful completion of saveFile, hasUnsavedChanges is
\* false and saveStatus is 'saved', whatever was interleaved with the write.
C3_AfterSuccessfulSave ==
    (event.name = "writeFileDone" /\ event.ret = "true")
        => (~hasUnsavedChanges /\ saveStatus = "saved")

\* A write has just succeeded whose text is not the content any more.
C3_Witness ==
    /\ event.name = "writeFileDone"
    /\ event.ret = "true"
    /\ persisted # content

\* C4 (as stated): saveStatus is a function of (dirty, operation in flight).
\* The initial state has the pair (clean, nothing in flight) with 'saved', so
\* every state with that pair would have to have saveStatus 'saved'.
C4_StatusFunctionOfPair ==
    (~hasUnsavedChanges /\ ops = EmptyBag) => saveStatus = "saved"

\* C4 (amended): saveStatus is 'saving' only while a write started by
\* saveFile or an openFile is in flight.
C4_SavingOnlyInFlight == saveStatus = "saving" => (WriteInFlight \/ OpenInFlight)

C4_Witness == saveStatus = "saving" /\ WriteInFlight /\ hasUnsavedChanges

\* C5 (as stated): a run of rapid content-changing updateContent calls on a
\* document with a path causes exactly one autosave writeFile call, carrying
\* the content of the last call.
C5_ExactlyOneWrite ==
    BurstDone => burst.log = << <<"writeFile", currentFilePath, burst.last>> >>

\* C5 (amended): the run causes exactly one autosave writeFile call, with the
\* content of the last call, when that content differs from originalContent,
\* and no call at all when the last call restored originalContent.
C5_OneWriteIfDirty ==
    BurstDone => burst.log = IF burst.dirty
                             THEN << <<"writeFile", currentFilePath, burst.last>> >>
                             ELSE <<>>

C5_Witness ==
    /\ BurstDone
    /\ burst.edits >= 2
    /\ burst.dirty
    /\ burst.log = << <<"writeFile", currentFilePath, burst.last>> >>

\* C6: once a single edit has made a document with a path dirty, then
\* eventually either writeFile has been called exactly once by autosave, with
\* the document's path and current content, or a further edit or operation
\* has happened.
C6_EventuallyAutosaved ==
    (burst.open /\ burst.edits = 1 /\ burst.dirty /\ burst.log = <<>>)
        ~> \/ /\ BurstDone
              /\ burst.edits = 1
              /\ burst.log = << <<"writeFile", currentFilePath, content>> >>
           \/ ~burst.open
           \/ burst.edits > 1

C6_Witness ==
    /\ BurstDone
    /\ burst.edits = 1
    /\ event.name = "debouncedSave"
    /\ burst.log = << <<"writeFile", currentFilePath, content>> >>

\* C7: when the debounce timer fires while currentFilePath is null, no call
\* is issued: neither writeFile nor showSaveDialog.
C7_NoAutosaveWithoutPath ==
    [][(TimerDue /\ isNewFile /\ event'.name = "debouncedSave")
          => (ops' = ops /\ event'.fs = "none")]_vars

C7_Witness ==
    /\ event.name = "debouncedSave"
    /\ isNewFile
    /\ hasUnsavedChanges

\* C8: a failed write sets saveStatus to 'error', records a message, and
\* leaves content, originalContent and currentFilePath as they were.
C8_FailedSaveKeepsDocument ==
    [][(event'.name = "writeFileDone" /\ event'.ret = "false")
          => /\ saveStatus' = "error"
             /\ errorMessage' # Null
             /\ UNCHANGED <<content, originalContent, currentFilePath>>]_vars

C8_Witness ==
    /\ event.name = "writeFileDone"
    /\ event.ret = "false"
    /\ saveStatus = "error"
    /\ hasUnsavedChanges
    /\ content # ""

\* C9: a failed readFile makes openFile return false with saveStatus 'error'
\* and a message, leaving path, content, originalContent and metadata alone.
C9_FailedOpenKeepsDocument ==
    [][event'.name = "readFileFail"
          => /\ saveStatus' = "error"
             /\ errorMessage' # Null
             /\ event'.ret = "false"
             /\ UNCHANGED doc]_vars

C9_Witness ==
    /\ event.name = "readFileFail"
    /\ saveStatus = "error"
    /\ currentFilePath # Null
    /\ content # ""

C11_CancelledDialogIsNoOp ==
    [][(/\ isNewFile
        /\ ops' # ops
        /\ event'.name = "saveDialogDone"
        /\ event'.fs = "cancel")
       => (/\ UNCHANGED <<saveStatus, content, originalContent, currentFilePath>>
           /\ event'.ret = "false"
           /\ \A op \in BagToSet(ops') :
                 op.kind = "writeFile" => CopiesIn(op, ops') <= CopiesIn(op, ops))]_vars

C11_Witness ==
    /\ event.name = "saveDialogDone"
    /\ event.fs = "cancel"
    /\ isNewFile
    /\ hasUnsavedChanges
    /\ saveStatus = "unsaved"
    /\ ~WriteInFlight


\* ---------------------------------------------------------------- C12
\* C12: the scroll event a view emits because it was commanded by the other
\* view (the echo) never makes the handlers send a command back, whenever
\* the echo is dispatched relative to the unlock timer.
C12_EchoNeverCommands == lastScroll.cause = "command" => ~lastScroll.sent

\* ---------------------------------------------------------------- C13
\* C13: once a user scroll of the editor to percentage p has been passed to
\* the preview, and the user has not scrolled the preview since, the value
\* the preview reports equals p.
C13_PreviewReportsP ==
    (/\ lastScroll.view = "editor"
     /\ lastScroll.cause = "user"
     /\ lastScroll.sent
     /\ pendingScroll["preview"] # "user")
    => Emitted("preview").num * lastScroll.p.den
         = lastScroll.p.num * Emitted("preview").den

\* ---------------------------------------------------------------- C14
\* C14: the value a view passed to its scroll handler is
\* scrollTop / (scrollHeight - clientHeight) when the content overflows and 0
\* when it does not, and lies in [0, 1], for the editor and for the preview.
C14_EmittedIsPercentage ==
    lastScroll.view # "none" =>
        LET el        == dom[lastScroll.view]
            maxScroll == el.scrollHeight - el.clientHeight
            p         == lastScroll.p
        IN  /\ p.den > 0
            /\ maxScroll > 0 => p.num * maxScroll = lastScroll.top * p.den
            /\ maxScroll <= 0 => p.num = 0
            /\ 0 <= p.num
            /\ p.num <= p.den

\* ---------------------------------------------------------------- C20
\* C20: a scroll event of either view is ignored (nothing commanded, flag and
\* timers untouched) when the flag is set, the sync-scroll setting is off or
\* the other view's ref is null; otherwise the handler sets the flag, commands
\* the other view once with the emitted value, and starts one timer of 100 ms.
C20_HandlerContract ==
    [][\A v \in Views :
         (pendingScroll[v] # "none" /\ pendingScroll'[v] = "none" /\ refs'[v]) =>
            IF isSyncingScroll \/ ~settings.syncScroll \/ ~refs[Other(v)]
            THEN /\ UNCHANGED <<isSyncingScroll, unlockTimers, dom>>
                 /\ ~lastScroll'.sent
            ELSE /\ isSyncingScroll'
                 /\ lastScroll'.sent
                 /\ lastScroll'.view = v
                 /\ lastScroll'.p = Emitted(v)
                 /\ dom'[Other(v)] = scrollToPercentage(dom[Other(v)], Emitted(v))
                 /\ dom'[v] = dom[v]
                 /\ BagCardinality(unlockTimers') = BagCardinality(unlockTimers) + 1
                 /\ CopiesIn(100, unlockTimers') = CopiesIn(100, unlockTimers) + 1]_vars

\* An echo was dropped because the flag was still set.
C20_Witness ==
    /\ lastScroll.cause = "command"
    /\ ~lastScroll.sent
    /\ isSyncingScroll
    /\ settings.syncScroll
    /\ \A v \in Views : refs[v]
    /\ unlockTimers # EmptyBag


\* ---------------------------------------------------------------- C18
\* C18: an edit that arms the autosave timer arms it with the autoSaveDelay
\* the Settings Store holds at that moment, and autosave starts no write
\* while the autoSave setting is off.
C18_AutosaveFollowsSettings ==
    [][/\ (event'.name = "updateContent" /\ timer' > timer)
            => timer' = TicksOf(settings.autoSaveDelay)
       /\ (event'.auto /\ event'.fs = "writeFile" /\ ops' # ops)
            => settings.autoSave]_vars


\* ---------------------------------------------------------------- C19
\* C19: after updateSetting, resetToDefaults or the dialog's save, the
\* settings in memory are the ones the operation set, the config service
\* was given them, and storage holds them when the write worked; when the
\* write failed the settings in memory stay changed.
C19_MutationsAreSaved ==
    settingsEvent.name \in {"updateSetting", "resetToDefaults", "handleSave"} =>
        /\ settings = settingsEvent.want
        /\ configSettings = settings
        /\ settingsEvent.stored => localStorage = {settings}

\* A write to storage failed after a setting was changed.
C19_Witness ==
    /\ settingsEvent.name = "updateSetting"
    /\ ~settingsEvent.stored
    /\ settings # DEFAULT_SETTINGS
    /\ settings = settingsEvent.want
    /\ localStorage # {settings}


\* ---------------------------------------------------------------- C15
\* C15: no step of unregister removes a '.md' association that belongs to
\* another program: such a value is still there after the step.
C15_UnregisterKeepsForeignMd ==
    [][task = "unregister" =>
          \A r \in Roots : registry[r].md = "other" => registry'[r].md = "other"]_vars

\* ---------------------------------------------------------------- C16
\* C16: a finished register() reports success exactly when all twelve
\* reg add commands worked; otherwise it reports the error of the command
\* that failed, and what the earlier commands wrote is still in the registry.
C16_RegisterAllOrNothing ==
    (regLog.task = "register" /\ regLog.done) =>
        /\ regResult.success <=> (regLog.failed = "none" /\ regLog.ok = RegisterSteps)
        /\ ~regResult.success =>
              /\ regResult.error =
                    (CASE regLog.failed = "denied" -> "requiresAdmin"
                       [] regLog.failed = "error"  -> "message"
                       [] OTHER                    -> "default")
              /\ \A n \in regLog.ok :
                    IF n = 1 THEN registry[regLog.root].md = "0xNote"
                    ELSE n \in registry[regLog.root].entries

\* Registration failed in the context-menu part, after the file association.
C16_Witness ==
    /\ regLog.task = "register"
    /\ regLog.done
    /\ ~regResult.success
    /\ regLog.failed = "denied"
    /\ 7 \in regLog.ok
    /\ 7 \in registry[regLog.root].entries

\* ---------------------------------------------------------------- C17
\* C17: a process started with --register or --unregister never creates a
\* window; with --register (alone or with --unregister) it runs registration
\* only and exits with 0 when that succeeded and 1 when it failed; with
\* --unregister alone it runs removal and exits with 0 on success, 1 on
\* failure.
C17_SilentModeExitCodes ==
    /\ (proc \in {"silent", "exited"} /\ args # {}) => ~windowCreated
    /\ (proc = "silent" /\ "--register" \in args) => task = "register"
    /\ (proc = "exited" /\ "--register" \in args) =>
          /\ regLog.task = "register"
          /\ exitCode = IF regLog.failed = "none" /\ regLog.ok = RegisterSteps THEN 0 ELSE 1
    /\ (proc = "exited" /\ args = {"--unregister"}) =>
          /\ regLog.task = "unregister"
          /\ \/ regResult.success /\ exitCode = 0
             \/ ~regResult.success /\ exitCode = 1

\* Both flags were given and the registration failed.
C17_Witness ==
    /\ proc = "exited"
    /\ args = Flags
    /\ exitCode = 1
    /\ regLog.task = "register"
    /\ ~windowCreated

\* ---------------------------------------------------------------- C21
\* C21: saveFile() without argument on a document that has no path opens
\* the save dialog instead of failing or writing directly (no writeFile is
\* started, saveStatus and errorMessage stay as they are); when the dialog
\* yields a path, a writeFile of the content to that path is started; and a
\* successful writeFile makes the written path the currentFilePath.
C21_SaveOfNewFileGoesThroughDialog ==
    [][/\ (/\ event'.name = "saveFile"
           /\ ops' # ops
           /\ isNewFile)
          => (/\ event'.fs = "showSaveDialog"
              /\ Op("showSaveDialog", Null, Null) \in BagToSet(ops')
              /\ \A op \in BagToSet(ops') :
                    op.kind = "writeFile" => CopiesIn(op, ops') <= CopiesIn(op, ops)
              /\ UNCHANGED <<saveStatus, errorMessage, doc>>)
       /\ (/\ event'.name = "saveDialogDone"
           /\ Op("showSaveDialog", Null, Null) \in BagToSet(ops)
           /\ (event' # event \/ ops' # ops)
           /\ event'.ret = "none")
          => (/\ event'.fs = "writeFile"
              /\ event'.path \in Paths
              /\ CopiesIn(Op("writeFile", event'.path, content), ops')
                    > CopiesIn(Op("writeFile", event'.path, content), ops)
              /\ UNCHANGED doc)
       /\ (/\ event'.name = "writeFileDone"
           /\ ops' # ops
           /\ event'.ret = "true")
          => \E op \in BagToSet(ops) :
                /\ op.kind = "writeFile"
                /\ CopiesIn(op, ops') < CopiesIn(op, ops)
                /\ currentFilePath' = op.path]_vars

\* The dialog opened for a path-less, edited document returned a path and
\* the write to it is in flight.
C21_Witness ==
    /\ event.name = "saveDialogDone"
    /\ event.ret = "none"
    /\ isNewFile
    /\ content # ""
    /\ Op("writeFile", event.path, content) \in BagToSet(ops)

\* ---------------------------------------------------------------- C22
\* C22: createNewFile() leaves content and originalContent empty,
\* currentFilePath, fileMetadata and errorMessage null and saveStatus
\* 'saved', whatever the state before; and when an autosave timer that was
\* already pending at the call fires, it starts no writeFile.
C22_NewFileResetsAndStaleTimerIsHarmless ==
    [][/\ event'.name = "createNewFile"
          => (/\ content' = ""
              /\ originalContent' = ""
              /\ currentFilePath' = Null
              /\ fileMetadata' = Null
              /\ errorMessage' = Null
              /\ saveStatus' = "saved")
       /\ (staleTimer /\ TimerDue /\ timer' = Idle)
          => (/\ event'.name = "debouncedSave"
              /\ event'.fs = "none"
              /\ ops' = ops
              /\ UNCHANGED <<doc, saveStatus, errorMessage>>)]_vars

\* createNewFile() was called on a document with a pending autosave timer,
\* a write that was in flight has since given the document a path, and the
\* timer is about to fire.
C22_Witness ==
    /\ staleTimer
    /\ TimerDue
    /\ currentFilePath # Null
    /\ saveStatus = "saved"

\* ---------------------------------------------------------------- C23
\* C23 as stated: after a failed save, with no edit and no explicit save in
\* between, the store starts no writeFile: if the autosave timer fires
\* right after the failure (clock ticks aside), it writes nothing.
C23_NoWriteAfterFailure ==
    [][(/\ event.name = "writeFileDone"
        /\ event.ret = "false"
        /\ event'.name = "debouncedSave")
       => event'.fs = "none"]_vars

\* C23 amended: the failing completion of a save starts no call and leaves
\* the autosave timer alone; a writeFile is started only by saveFile(), by
\* saveFileAs() once its dialog returned a path, or by the autosave timer
\* firing; and the timer is armed only by a content-changing edit.  So
\* after a failure that leaves no timer pending the next write needs a new
\* edit or an explicit save, while a timer an earlier edit left pending
\* still fires.
C23_FailureArmsNothing ==
    [][/\ (event'.name = "writeFileDone" /\ event'.ret = "false" /\ ops' # ops)
          => (/\ timer' = timer
              /\ \A op \in BagToSet(ops') : CopiesIn(op, ops') <= CopiesIn(op, ops))
       /\ (\E op \in BagToSet(ops') :
              op.kind = "writeFile" /\ CopiesIn(op, ops') > CopiesIn(op, ops))
          => \/ event'.name \in {"saveFile", "saveDialogDone"}
             \/ event'.name = "debouncedSave" /\ TimerDue
       /\ (timer' # Idle /\ timer' > timer)
          => (event'.name = "updateContent" /\ content' # content)]_vars

\* A save of a dirty document failed while no autosave timer was pending.
C23_Witness ==
    /\ event.name = "writeFileDone"
    /\ event.ret = "false"
    /\ timer = Idle
    /\ hasUnsavedChanges
    /\ currentFilePath # Null
    /\ saveStatus = "error"

C25_UnregisterSwallowsAndIsIdempotent ==
    [][/\ (task = "unregister" /\ pc \in DeleteSteps /\ pc' # pc)
          => \/ pc + 1 \in DeleteSteps /\ pc' = pc + 1 /\ task' = "unregister"
             \/ /\ pc + 1 \notin DeleteSteps
                /\ task' = "none"
                /\ regResult' = Result(TRUE, "none")
                /\ proc = "silent" => (proc' = "exited" /\ exitCode' = 0)
       /\ (/\ task = "unregister"
           /\ \A r \in Roots : registry[r].entries = {} /\ registry[r].md # "0xNote")
          => registry' = registry]_vars

\* ---------------------------------------------------------------- C26
\* C26: when a write has just succeeded, which leaves the document with
\* the written path and saveStatus 'saved', the text that write put into
\* the file is the content: an edit made during the write is not reported
\* as saved.
C26_SavedMeansWritten ==
    (/\ event.name = "writeFileDone"
     /\ event.ret = "true"
     /\ saveStatus = "saved"
     /\ currentFilePath # Null)
        => persisted = content

\* ---------------------------------------------------------------- C27
\* C27: when createNewFile(), or the loading step of openFile(q), has just
\* taken effect while a write is in flight, the completion of that write
\* leaves currentFilePath as they set it: null, respectively q.
C27_CompletionKeepsCurrentDocument ==
    [][(/\ event.name \in {"createNewFile", "readFileDone", "metadataDone"}
        /\ event.ret # "false"
        /\ WriteInFlight
        /\ event'.name = "writeFileDone"
        /\ ops' # ops)
       => currentFilePath' = currentFilePath]_vars

\* ---------------------------------------------------------------- C28
\* C28: isSyncingScroll is true exactly when one unlock timer is pending
\* and false exactly when none is, so two timers are never pending; and
\* whenever the flag is true it is eventually false again.
C28_FlagFollowsTheOneTimer ==
    /\ [](isSyncingScroll <=> BagCardinality(unlockTimers) = 1)
    /\ [](~isSyncingScroll <=> unlockTimers = EmptyBag)
    /\ (isSyncingScroll ~> ~isSyncingScroll)

\* A scroll was passed on to the other view, and the flag it set has been
\* cleared again by the timer.
C28_Witness ==
    /\ lastScroll.sent
    /\ ~isSyncingScroll
    /\ unlockTimers = EmptyBag

\* ---------------------------------------------------------------- C29
\* C29: once register() has returned success, isRegistered() is true,
\* under either root; and a normal launch that follows does not start the
\* registration again.
C29_RegisteredIsSeen ==
    [][(/\ regLog.task = "register"
        /\ regLog.done
        /\ regResult.success
        /\ task = "none")
       => (/\ isRegistered
           /\ (proc # "normal" /\ proc' = "normal") => task' # "register")]_vars

\* ---------------------------------------------------------------- C30
\* C30: when openFile(path) has just returned true, fileMetadata is null
\* or the metadata of that path, also when getFileMetadata failed for it.
C30_MetadataIsOfOpenedFile ==
    (event.name = "metadataDone" /\ event.ret = "true")
        => fileMetadata \in {Null, event.path}

=============================================================================
